---- MODULE Spec2Model ----
(***************************************************************************)
(* GhostLab42Reboot: driver for the 4 digit and the 6 digit seven-segment  *)
(* displays, each behind an IS31FL3730 on the I2C bus.                     *)
(*                                                                         *)
(* The state is the register file of the two chips, the Wire transmit      *)
(* buffer, and a record of the last public call with the bus transactions  *)
(* it issued.  Every public member function is one action.  Characters are *)
(* their ASCII codes, Strings are sequences of characters, bytes are       *)
(* written in decimal with the source's hex in a comment.                  *)
(***************************************************************************)
EXTENDS Integers, Sequences, FiniteSets

VARIABLES
    begun,      \* begin() has returned (Wire.begin() done)
    regs,       \* regs[address][index]: register file of the chip at address
    txBuffer,   \* bytes queued in Wire since beginTransmission, not yet ended
    txs,        \* the bus transactions of the last public call, in order
    last        \* the last call: its name and its arguments

vars == <<begun, regs, txBuffer, txs, last>>

----------------------------------------------------------------------------
(* Constants of the source *)

IS31FL3730_DIGIT_4_I2C_ADDRESS == 99            \* 0x63
IS31FL3730_DIGIT_6_I2C_ADDRESS == 96            \* 0x60
IS31FL3730_Data_Registers == 1                  \* 0x01
IS31FL3730_Update_Column_Register == 12         \* 0x0C
IS31FL3730_Lighting_Effect_Register == 13       \* 0x0D
IS31FL3730_PWM_Register == 25                   \* 0x19
IS31FL3730_Reset_Register == 255                \* 0xFF

POWER_MIN == 8                                  \* 0x08, setDisplayPowerMin
POWER_MAX == 11                                 \* 0x0B, setDisplayPowerMax

lightCorrectionTable ==
    << 0, 1, 1, 1, 1, 1, 1, 1, 1, 1, 1, 2,
       2, 2, 2, 2, 3, 3, 3, 4, 4, 4, 4, 5,
       5, 6, 6, 7, 7, 7, 8, 9, 9, 10, 10, 11,
       12, 12, 13, 14, 14, 15, 16, 17, 18, 19, 20, 21,
       21, 23, 24, 25, 26, 27, 28, 29, 31, 32, 33, 35,
       36, 37, 39, 40, 42, 44, 45, 47, 49, 50, 52, 54,
       56, 58, 60, 62, 64, 66, 68, 70, 73, 75, 77, 80,
       82, 84, 87, 90, 92, 95, 98, 100, 103, 106, 109, 112,
       115, 118, 121, 125, 128 >>

Byte == 0..255
Addresses == {IS31FL3730_DIGIT_4_I2C_ADDRESS, IS31FL3730_DIGIT_6_I2C_ADDRESS}

----------------------------------------------------------------------------
(* The IS31FL3730 as the source's comments describe it *)

\* Register indices of the chip below the reset register: 0x00 .. 0x19.
Registers == 0..IS31FL3730_PWM_Register

\* Power-on value of every register: zero, which in the Lighting Effect
\* Register is the 40mA setting the driver must not leave in place.
PowerOnDefault == 0

PowerOnRegisters == [r \in Registers |-> PowerOnDefault]

\* One byte written at register index p.  Any write to the Reset Register
\* returns all registers to their defaults; an index the chip does not have
\* stores nothing.
StoreByte(chip, p, b) ==
    IF p = IS31FL3730_Reset_Register THEN PowerOnRegisters
    ELSE IF p \in Registers THEN [chip EXCEPT ![p] = b]
    ELSE chip

\* The data bytes of one transaction: the first goes to the index sent at
\* the start of the transaction, "sequential bytes will go to the next
\* register index".
RECURSIVE StoreBytes(_, _, _)
StoreBytes(chip, p, data) ==
    IF data = <<>> THEN chip
    ELSE StoreBytes(StoreByte(chip, p, Head(data)), (p + 1) % 256, Tail(data))

\* A whole transaction as the chip receives it: register index, then data.
Receive(chip, bytes) ==
    IF bytes = <<>> THEN chip
    ELSE StoreBytes(chip, Head(bytes), Tail(bytes))

\* The register index at which the k-th byte of a transaction is stored
\* (k = 1 is the index byte itself and is stored nowhere).
LandsAt(bytes, k) == (bytes[1] + (k - 2)) % 256

----------------------------------------------------------------------------
(* Private functions *)

\* Mutant: the test is for the 6 digit display, everything else is the 4.
setupWireTransmission_SixElseFour(digits) ==
    IF digits = 6 THEN IS31FL3730_DIGIT_6_I2C_ADDRESS
    ELSE IS31FL3730_DIGIT_4_I2C_ADDRESS

\* setupWireTransmission: the address Wire.beginTransmission is given.
setupWireTransmission(digits) ==
    IF digits = 4 THEN IS31FL3730_DIGIT_4_I2C_ADDRESS
    ELSE IS31FL3730_DIGIT_6_I2C_ADDRESS

\* A transaction: opened by setupWireTransmission(digits), the bytes given
\* to Wire.write, closed by Wire.endTransmission.
Transaction(digits, bytes) ==
    [addr |-> setupWireTransmission(digits), bytes |-> bytes]

\* Wire.endTransmission: the chip at the transaction's address receives it.
Deliver(rg, tx) == [rg EXCEPT ![tx.addr] = Receive(rg[tx.addr], tx.bytes)]

RECURSIVE DeliverAll(_, _)
DeliverAll(rg, seq) ==
    IF seq = <<>> THEN rg ELSE DeliverAll(Deliver(rg, Head(seq)), Tail(seq))

\* The if / else-if chain of writeCharacter: the bytes of one character.
characterBytes(displayCharacter) ==
    CASE displayCharacter = 48 -> <<63>>                                \* '0' 0x3F
      [] displayCharacter = 49 -> <<6>>                                 \* '1' 0x06
      [] displayCharacter = 50 -> <<91>>                                \* '2' 0x5B
      [] displayCharacter = 51 -> <<79>>                                \* '3' 0x4F
      [] displayCharacter = 52 -> <<102>>                               \* '4' 0x66
      [] displayCharacter = 53 -> <<109>>                               \* '5' 0x6D
      [] displayCharacter = 54 -> <<125>>                               \* '6' 0x7D
      [] displayCharacter = 55 -> <<7>>                                 \* '7' 0x07
      [] displayCharacter = 56 -> <<127>>                               \* '8' 0x7F
      [] displayCharacter = 57 -> <<111>>                               \* '9' 0x6F
      [] displayCharacter = 65 \/ displayCharacter = 97 -> <<119>>      \* Aa 0x77
      [] displayCharacter = 66 \/ displayCharacter = 98 -> <<124>>      \* Bb 0x7C
      [] displayCharacter = 67 \/ displayCharacter = 99 -> <<57>>       \* Cc 0x39
      [] displayCharacter = 68 \/ displayCharacter = 100 -> <<94>>      \* Dd 0x5E
      [] displayCharacter = 69 \/ displayCharacter = 101 -> <<121>>     \* Ee 0x79
      [] displayCharacter = 70 \/ displayCharacter = 102 -> <<113>>     \* Ff 0x71
      [] displayCharacter = 71 \/ displayCharacter = 103 -> <<61>>      \* Gg 0x3D
      [] displayCharacter = 72 \/ displayCharacter = 104 -> <<118>>     \* Hh 0x76
      [] displayCharacter = 73 \/ displayCharacter = 105 -> <<6>>       \* Ii 0x06
      [] displayCharacter = 74 \/ displayCharacter = 106 -> <<30>>      \* Jj 0x1E
      [] displayCharacter = 75 \/ displayCharacter = 107 -> <<118>>     \* Kk 0x76
      [] displayCharacter = 76 \/ displayCharacter = 108 -> <<56>>      \* Ll 0x38
      [] displayCharacter = 77 \/ displayCharacter = 109 -> <<51, 39>>  \* Mm 0x33 0x27
      [] displayCharacter = 78 \/ displayCharacter = 110 -> <<84>>      \* Nn 0x54
      [] displayCharacter = 79 \/ displayCharacter = 111 -> <<63>>      \* Oo 0x3F
      [] displayCharacter = 80 \/ displayCharacter = 112 -> <<115>>     \* Pp 0x73
      [] displayCharacter = 81 \/ displayCharacter = 113 -> <<103>>     \* Qq 0x67
      [] displayCharacter = 82 \/ displayCharacter = 114 -> <<80>>      \* Rr 0x50
      [] displayCharacter = 83 \/ displayCharacter = 115 -> <<109>>     \* Ss 0x6D
      [] displayCharacter = 84 \/ displayCharacter = 116 -> <<120>>     \* Tt 0x78
      [] displayCharacter = 85 \/ displayCharacter = 117 -> <<62>>      \* Uu 0x3E
      [] displayCharacter = 86 \/ displayCharacter = 118 -> <<62>>      \* Vv 0x3E
      [] displayCharacter = 87 \/ displayCharacter = 119 -> <<60, 30>>  \* Ww 0x3C 0x1E
      [] displayCharacter = 88 \/ displayCharacter = 120 -> <<118>>     \* Xx 0x76
      [] displayCharacter = 89 \/ displayCharacter = 121 -> <<110>>     \* Yy 0x6E
      [] displayCharacter = 90 \/ displayCharacter = 122 -> <<91>>      \* Zz 0x5B
      [] displayCharacter = 63 -> <<163>>                               \* '?' 0xA3
      [] displayCharacter = 33 -> <<130>>                               \* '!' 0x82
      [] displayCharacter = 45 -> <<64>>                                \* '-' 0x40
      [] OTHER -> <<0>>                                                 \* blank

\* Mutant: lower-case letters are not recognised.
writeCharacter_CaseSensitive(displayCharacter) ==
    IF displayCharacter \in 97..122 THEN <<0>>
    ELSE characterBytes(displayCharacter)

\* Mutant: only the first byte of a character is sent.
writeCharacter_OneByte(displayCharacter) ==
    <<Head(characterBytes(displayCharacter))>>

\* writeCharacter: every byte of the character goes to Wire.write, in order.
writeCharacter(displayCharacter) == characterBytes(displayCharacter)

\* String::charAt(i), i counted from 0: the character, or 0 past the end.
charAt(value, i) ==
    IF i >= Len(value) THEN 0 ELSE value[i + 1]

\* Mutant: the loop runs over the String's length, not over digits.
RECURSIVE writeLoop_ToLength(_, _, _, _)
writeLoop_ToLength(i, digits, value, queued) ==
    IF i < Len(value)
    THEN writeLoop_ToLength(i + 1, digits, value,
                            queued \o writeCharacter(charAt(value, i)))
    ELSE queued

\* The loop of write: for (i = 0; i < digits; i++) writeCharacter(charAt(i)),
\* appending to the bytes already queued.
RECURSIVE writeLoop(_, _, _, _)
writeLoop(i, digits, value, queued) ==
    IF i < digits
    THEN writeLoop(i + 1, digits, value, queued \o writeCharacter(charAt(value, i)))
    ELSE queued

\* write's first statement: if (digits != 4) digits = 6.
writeDigits(digits) == IF digits # 4 THEN 6 ELSE digits

\* setDisplayPowerMax / setDisplayPowerMin: one transaction each.
setDisplayPowerMax(digits) ==
    Transaction(digits, <<IS31FL3730_Lighting_Effect_Register, POWER_MAX>>)

setDisplayPowerMin(digits) ==
    Transaction(digits, <<IS31FL3730_Lighting_Effect_Register, POWER_MIN>>)

----------------------------------------------------------------------------
(* The transactions each public function issues, in order *)

beginTransactions == <<setDisplayPowerMax(4), setDisplayPowerMax(6)>>

\* Mutant: the latch is sent before the data.
writeTransactions_LatchFirst(digits, value) ==
    LET d == writeDigits(digits)
    IN  << Transaction(d, <<IS31FL3730_Update_Column_Register, 0>>),
           Transaction(d, writeLoop(0, d, value, <<IS31FL3730_Data_Registers>>)) >>

\* Mutant: the data starts one register too far.
writeTransactions_StartAtTwo(digits, value) ==
    LET d == writeDigits(digits)
    IN  << Transaction(d, writeLoop(0, d, value, <<IS31FL3730_Data_Registers + 1>>)),
           Transaction(d, <<IS31FL3730_Update_Column_Register, 0>>) >>

writeTransactions(digits, value) ==
    LET d == writeDigits(digits)
    IN  << Transaction(d, writeLoop(0, d, value, <<IS31FL3730_Data_Registers>>)),
           Transaction(d, <<IS31FL3730_Update_Column_Register, 0>>) >>

\* Mutant: the current is not set again after the reset.
resetDisplayTransactions_ResetOnly(digits) ==
    << Transaction(digits, <<IS31FL3730_Reset_Register, 0>>) >>

\* Mutant: the current is set before the reset, not after it.
resetDisplayTransactions_PowerFirst(digits) ==
    << setDisplayPowerMax(digits),
       Transaction(digits, <<IS31FL3730_Reset_Register, 0>>) >>

resetDisplayTransactions(digits) ==
    << Transaction(digits, <<IS31FL3730_Reset_Register, 0>>),
       setDisplayPowerMax(digits) >>

\* pwm is the byte read at lightCorrectionTable[brightness].
setDisplayBrightnessTransactions(digits, pwm) ==
    << Transaction(digits, <<IS31FL3730_PWM_Register, pwm>>) >>

\* Mutant: the table is read one entry too low.
TableReads_OffByOne(brightness) ==
    IF brightness \in 1..100 THEN {lightCorrectionTable[brightness]}
    ELSE Byte

\* lightCorrectionTable[brightness]: the table's entry for 0..100; outside the
\* table the read is out of bounds and may yield any byte.
TableReads(brightness) ==
    IF brightness \in 0..100 THEN {lightCorrectionTable[brightness + 1]}
    ELSE Byte

----------------------------------------------------------------------------
(* Inputs *)

MaxLen == 7         \* longest String given to write

Digits == {-1, 0, 4, 5, 6}

\* ' ', '1', 'M' and 'w': an unmapped character, a digit, and the two wide
\* glyphs, one in upper and one in lower case.
Alphabet == {32, 49, 77, 119}

Chars == 0..255

StringsUpTo(n) == UNION {[1..k -> Alphabet] : k \in 0..n}

\* The Strings of the long-running specification: the empty String, and a
\* digit or a wide glyph repeated, shorter and longer than either display.
Repeated == {[i \in 1..k |-> c] : k \in {0, 3, MaxLen}, c \in {49, 77}}

BrightnessAll == -1..101
BrightnessSome == {0, 50, 100}

Call(op, digits, value, brightness) ==
    [op |-> op, digits |-> digits, value |-> value, brightness |-> brightness]

----------------------------------------------------------------------------
(* Actions: one per public member function *)

Init ==
    /\ begun = FALSE
    /\ regs = [a \in Addresses |-> PowerOnRegisters]
    /\ txBuffer = <<>>
    /\ txs = <<>>
    /\ last = Call("none", 0, <<>>, 0)

Begin ==
    /\ ~begun
    /\ begun' = TRUE
    /\ txs' = beginTransactions
    /\ regs' = DeliverAll(regs, beginTransactions)
    /\ txBuffer' = <<>>
    /\ last' = Call("begin", 0, <<>>, 0)

Write(digits, value) ==
    /\ begun
    /\ txs' = writeTransactions(digits, value)
    /\ regs' = DeliverAll(regs, writeTransactions(digits, value))
    /\ txBuffer' = <<>>
    /\ last' = Call("write", digits, value, 0)
    /\ UNCHANGED begun

ResetDisplay(digits) ==
    /\ begun
    /\ txs' = resetDisplayTransactions(digits)
    /\ regs' = DeliverAll(regs, resetDisplayTransactions(digits))
    /\ txBuffer' = <<>>
    /\ last' = Call("resetDisplay", digits, <<>>, 0)
    /\ UNCHANGED begun

SetDisplayBrightness(digits, brightness) ==
    /\ begun
    /\ \E pwm \in TableReads(brightness) :
         /\ txs' = setDisplayBrightnessTransactions(digits, pwm)
         /\ regs' = DeliverAll(regs, setDisplayBrightnessTransactions(digits, pwm))
    /\ txBuffer' = <<>>
    /\ last' = Call("setDisplayBrightness", digits, <<>>, brightness)
    /\ UNCHANGED begun

\* writeCharacter on its own, inside an open transaction: the bytes it queues.
WriteCharacter(c) ==
    /\ begun
    /\ txBuffer' = txBuffer \o writeCharacter(c)
    /\ last' = Call("writeCharacter", 0, <<c>>, 0)
    /\ UNCHANGED <<begun, regs, txs>>

----------------------------------------------------------------------------
(* Specifications *)

\* Any sequence of public calls after begin().
Next ==
    \/ Begin
    \/ \E d \in Digits, v \in Repeated : Write(d, v)
    \/ \E d \in Digits : ResetDisplay(d)
    \/ \E d \in Digits, b \in BrightnessSome : SetDisplayBrightness(d, b)

Spec == Init /\ [][Next]_vars

\* begin() and then one call, over the whole input domain.
NextOnce ==
    \/ Begin
    \/ last.op = "begin" /\ \E d \in Digits, v \in StringsUpTo(MaxLen) : Write(d, v)
    \/ last.op = "begin" /\ \E d \in Digits : ResetDisplay(d)
    \/ last.op = "begin" /\ \E d \in Digits, b \in BrightnessAll : SetDisplayBrightness(d, b)
    \/ last.op = "begin" /\ \E c \in Chars : WriteCharacter(c)

SpecOnce == Init /\ [][NextOnce]_vars

----------------------------------------------------------------------------
(* Properties *)

\* What the documentation says of a call, independently of the operators
\* above: the display a digits argument selects, the positions written, the
\* wide glyphs.
DisplayOf(digits) == IF digits = 4 THEN 99 ELSE 96
OtherDisplay(digits) == IF digits = 4 THEN 96 ELSE 99
Positions(digits) == IF digits = 4 THEN 4 ELSE 6
Wide == {77, 109, 87, 119}                      \* 'M' 'm' 'W' 'w'
Mapped == (48..57) \cup (65..90) \cup (97..122) \cup {63, 33, 45}
Min(a, b) == IF a < b THEN a ELSE b
TakesDigits == {"write", "resetDisplay", "setDisplayBrightness"}

\* The segment bytes of the characters of a String, one character at a time.
RECURSIVE SegmentsOf(_)
SegmentsOf(str) ==
    IF str = <<>> THEN <<>>
    ELSE characterBytes(Head(str)) \o SegmentsOf(Tail(str))

\* The String cut to n characters, and the blanks that fill it up to n.
Truncated(str, n) == SubSeq(str, 1, Min(n, Len(str)))
Padding(str, n) == [i \in 1..(n - Min(n, Len(str))) |-> 0]

\* C1: once begin() has returned, between public calls the Lighting Effect
\* Register (0x0D) of both chips holds the maximum rated current 0x0B.
C1_CurrentLimitHeld ==
    begun => \A a \in Addresses : regs[a][13] = 11

\* C1 witness: the 4 digit display has just been reset while the 6 digit
\* display shows a String whose last byte reached index 0x0C.
C1_Witness ==
    /\ last.op = "resetDisplay" /\ last.digits = 4
    /\ regs[99][13] = 11 /\ regs[99][1] = 0
    /\ regs[96][11] = 51 /\ regs[96][13] = 11

\* C2: every transaction of a call that takes digits is addressed to 0x63
\* when digits is 4 and to 0x60 for any other value.
C2_AddressByDigits ==
    last.op \in TakesDigits =>
        /\ txs # <<>>
        /\ \A i \in 1..Len(txs) : txs[i].addr = DisplayOf(last.digits)

\* C2 witness: a write with a digits argument that is neither 4 nor 6.
C2_Witness ==
    /\ last.op = "write" /\ last.digits = -1
    /\ Len(txs) = 2 /\ txs[1].addr = 96 /\ txs[2].addr = 96

\* C3: write issues exactly two transactions to one address: the data (index
\* 0x01, then at least one segment byte per position), then the latch (index
\* 0x0C and one byte); the staged bytes are in the data registers afterwards.
C3_DataThenLatch ==
    last.op = "write" =>
        /\ Len(txs) = 2
        /\ txs[1].bytes[1] = 1
        /\ Len(txs[1].bytes) >= 1 + Positions(last.digits)
        /\ \A k \in 2..Len(txs[1].bytes) : txs[1].bytes[k] \in Byte
        /\ Len(txs[2].bytes) = 2
        /\ txs[2].bytes[1] = 12 /\ txs[2].bytes[2] \in Byte
        /\ txs[2].addr = txs[1].addr
        /\ regs[txs[1].addr][12] = txs[2].bytes[2]
        /\ \A k \in 2..Len(txs[1].bytes) :
             k <= 12 => regs[txs[1].addr][k - 1] = txs[1].bytes[k]

\* C3 witness: a write of three characters, one of them wide, to the 4 digit
\* display.
C3_Witness ==
    /\ last.op = "write" /\ last.digits = 4
    /\ last.value = <<49, 77, 32>>
    /\ txs[1].bytes = <<1, 6, 51, 39, 0, 0>>
    /\ txs[2].bytes = <<12, 0>>

\* C4: the bytes after the index are those of the first n characters of the
\* String (n = 4 for digits 4, else 6), then one 0x00 for every position at
\* or past its end.
C4_TruncateAndPad ==
    last.op = "write" =>
        LET n == Positions(last.digits)
        IN  Tail(txs[1].bytes) =
                SegmentsOf(Truncated(last.value, n)) \o Padding(last.value, n)

\* C4 witness: a String of seven characters written to the 4 digit display,
\* with wide glyphs among the characters that are cut off.
C4_Witness ==
    /\ last.op = "write" /\ last.digits = 4
    /\ last.value = <<49, 49, 49, 49, 77, 119, 77>>
    /\ txs[1].bytes = <<1, 6, 6, 6, 6>>

\* C5: resetDisplay issues exactly two transactions to the selected display:
\* one byte to the Reset Register (0xFF), then 0x0B to the Lighting Effect
\* Register (0x0D).
C5_ResetThenPowerMax ==
    last.op = "resetDisplay" =>
        /\ Len(txs) = 2
        /\ txs[1].addr = DisplayOf(last.digits)
        /\ txs[2].addr = DisplayOf(last.digits)
        /\ Len(txs[1].bytes) = 2
        /\ txs[1].bytes[1] = 255 /\ txs[1].bytes[2] \in Byte
        /\ txs[2].bytes = <<13, 11>>

\* C5 witness: the 6 digit display is reset after it was written and dimmed.
C5_Witness ==
    /\ last.op = "resetDisplay" /\ last.digits = 6
    /\ \A r \in Registers : r # 13 => regs[96][r] = 0
    /\ regs[96][13] = 11
    /\ regs[99][1] # 0 /\ regs[99][25] # 0

\* C6: setDisplayBrightness(digits, b) with b in 0..100 is one transaction,
\* index 0x19 and the byte lightCorrectionTable[b]; no smaller b has a larger
\* byte; b = 0 sends 0x00 and b = 100 sends 0x80.
C6_BrightnessByte ==
    (last.op = "setDisplayBrightness" /\ last.brightness \in 0..100) =>
        /\ Len(txs) = 1
        /\ Len(txs[1].bytes) = 2
        /\ txs[1].bytes[1] = 25
        /\ txs[1].bytes[2] = lightCorrectionTable[last.brightness + 1]
        /\ \A a \in 0..(last.brightness - 1) :
             lightCorrectionTable[a + 1] <= txs[1].bytes[2]
        /\ last.brightness = 0 => txs[1].bytes[2] = 0
        /\ last.brightness = 100 => txs[1].bytes[2] = 128

\* C6 witness: full brightness on the 4 digit display.
C6_Witness ==
    /\ last.op = "setDisplayBrightness" /\ last.brightness = 100
    /\ txs = << [addr |-> 99, bytes |-> <<25, 128>>] >>
    /\ regs[99][25] = 128

\* C7: writeCharacter queues 0x33 0x27 for M and m, 0x3C 0x1E for W and w and
\* one byte for any other character; the data transaction of write carries n
\* segment bytes plus one for every wide glyph among the first n characters.
C7_WideGlyphs ==
    /\ last.op = "writeCharacter" =>
         LET c == last.value[1]
         IN  /\ c \in {77, 109} => txBuffer = <<51, 39>>
             /\ c \in {87, 119} => txBuffer = <<60, 30>>
             /\ c \notin Wide => Len(txBuffer) = 1
    /\ last.op = "write" =>
         LET n == Positions(last.digits)
         IN  Len(txs[1].bytes) - 1 =
                n + Cardinality({i \in 1..Min(n, Len(last.value)) :
                                    last.value[i] \in Wide})

\* C7 witness: six wide glyphs written to the 6 digit display.
C7_Witness ==
    /\ last.op = "write" /\ last.digits = 6
    /\ last.value = <<77, 119, 77, 119, 77, 119>>
    /\ Len(txs[1].bytes) = 13

\* C8: both cases of a letter queue the same bytes, and a character that is
\* no digit, no letter and none of '?', '!', '-' queues the single byte 0x00.
C8_CaseAndBlank ==
    last.op = "writeCharacter" =>
        LET c == last.value[1]
        IN  /\ c \in 65..90 => txBuffer = writeCharacter(c + 32)
            /\ c \in 97..122 => txBuffer = writeCharacter(c - 32)
            /\ c \notin Mapped => txBuffer = <<0>>

\* C8 witness: a lower-case letter that lights segments.
C8_Witness ==
    /\ last.op = "writeCharacter"
    /\ last.value = <<98>>
    /\ txBuffer = <<124>>

\* C9: no segment byte of the data transaction of write is stored at the
\* Update Column Register (0x0C) or at a higher index.
C9_SegmentsInDataRegisters ==
    last.op = "write" =>
        \A k \in 2..Len(txs[1].bytes) : LandsAt(txs[1].bytes, k) <= 11

\* One step seen from the call it ends with: the registers a write, or a
\* setDisplayBrightness with b in 0..100, must leave as they were.
FootprintStep ==
    /\ last'.op = "write" =>
         /\ regs'[OtherDisplay(last'.digits)] = regs[OtherDisplay(last'.digits)]
         /\ regs'[DisplayOf(last'.digits)][13] = regs[DisplayOf(last'.digits)][13]
         /\ regs'[DisplayOf(last'.digits)][25] = regs[DisplayOf(last'.digits)][25]
    /\ (last'.op = "setDisplayBrightness" /\ last'.brightness \in 0..100) =>
         /\ regs'[OtherDisplay(last'.digits)] = regs[OtherDisplay(last'.digits)]
         /\ \A r \in Registers \ {25} :
              regs'[DisplayOf(last'.digits)][r] = regs[DisplayOf(last'.digits)][r]

\* C10: write leaves the other chip, the current limit and the PWM register
\* as they were; setDisplayBrightness with b in 0..100 changes nothing but
\* the PWM register of the selected chip.
C10_Footprint == [][FootprintStep]_vars

\* C10 witness: seven wide glyphs written to the 6 digit display while both
\* displays are dimmed and the 4 digit display shows something.
C10_Witness ==
    /\ last.op = "write" /\ last.digits = 6 /\ Len(last.value) = 7
    /\ regs[96][11] = 51
    /\ regs[96][13] = 11 /\ regs[96][25] = 24
    /\ regs[99][1] = 6 /\ regs[99][25] = 128

====
